---- MODULE Spec2Model ----
(***************************************************************************)
(* SettingsStore: emulated EEPROM in the top pages of program flash        *)
(* (CH32V003).  The model follows src/src/SettingsStore.cpp: the           *)
(* constructor's layout computation, load(), save() with its change        *)
(* detector and CRC injection, flashErase() and flashWrite() page by page. *)
(* Bytes are numbers 0..255, words are 32-bit numbers, the record buffer   *)
(* and the storage region are functions from byte offsets to bytes.        *)
(***************************************************************************)
EXTENDS Integers, Sequences, FiniteSets, TLC

\* ------------------------------------------------------------- constants
FLASH_PAGE_SIZE == 64
FLASH_END_ADDR == 134234112   \* 0x08004000
CRC_POLY == 4129              \* 0x1021
CRC_INIT == 65535             \* 0xFFFF
ERASED == 255                 \* a byte of erased flash
TwoTo16 == 65536

\* ---------------------------------------------------------------- bounds
\* Record lengths 0..MaxSmallLen are modelled, and one of two pages.
MaxSmallLen == 6
\* Record contents and prior flash contents are the patterns 0..MaxPattern.
MaxPattern == 3
\* Adjacent flash bytes one direct corruption changes.
MaxCorrupt == 3
\* Direct corruptions in one behaviour.
MaxBursts == 1
\* Page operations outside the storage region a runaway loop may issue.
MaxRunaway == 2
\* Lengths of the layout specification: 0..MaxLayoutLen.
MaxLayoutLen == 130

PageLens == {66}
Lengths == (0..MaxSmallLen) \cup PageLens
Patterns == 0..MaxPattern
\* XOR masks a direct corruption applies to the first, second, third ... byte
\* it changes: the bytes of the polynomial 0x011021, or all bits.
Masks(k) ==
  CASE k = 0 -> {1, 255}
    [] k = 1 -> {16}
    [] k = 2 -> {33}
    [] OTHER -> {255}
\* Values a read past the end of the record buffer can produce.
Garbage == {0, 255}

\* ------------------------------------------------------- bit arithmetic
RECURSIVE Xor(_, _)
Xor(a, b) ==
  IF a = 0 THEN b
  ELSE IF b = 0 THEN a
  ELSE (((a % 2) + (b % 2)) % 2) + 2 * Xor(a \div 2, b \div 2)

RECURSIVE And(_, _)
And(a, b) ==
  IF a = 0 \/ b = 0 THEN 0
  ELSE ((a % 2) * (b % 2)) + 2 * And(a \div 2, b \div 2)

\* ---------------------------------------------------- Layout Calculator
\* align_up without the "- 1": an aligned size is pushed one page further.
align_up_NoMinusOne(value, alignment) ==
  LET x == value + alignment
  IN  x - And(x, alignment - 1)

\* (value + alignment - 1) & ~(alignment - 1); x & ~m is x less its bits in m.
\* uint32_t values at or above 2^31 are held as their two's complement.
align_up(value, alignment) ==
  LET x == value + alignment - 1
  IN  x - And(x, alignment - 1)

flashStartAddr(data_size) ==
  LET pages == (data_size + FLASH_PAGE_SIZE - 1) \div FLASH_PAGE_SIZE
  IN  FLASH_END_ADDR - pages * FLASH_PAGE_SIZE

\* ------------------------------------------------------ Integrity Codec
\* The inner loop without the polynomial: a plain shift.
crcShift_NoPoly(crc) == (crc * 2) % TwoTo16

\* The inner loop with the polynomial XORed in on every pass, whatever the
\* top bit was.
crcShift_AlwaysPoly(crc) == Xor((crc * 2) % TwoTo16, CRC_POLY)

\* One pass of the inner loop: shift left, XOR the polynomial when the top
\* bit was set, in 16 bits.
crcShift(crc) ==
  IF (crc \div 32768) % 2 = 1
    THEN Xor((crc * 2) % TwoTo16, CRC_POLY)
    ELSE (crc * 2) % TwoTo16

\* The eight passes of the inner loop for one byte already XORed in.
crcBits(crc) ==
  crcShift(crcShift(crcShift(crcShift(crcShift(crcShift(crcShift(crcShift(crc))))))))

\* The outer loop over data[lo .. hi-1], starting from crc.  The bytes are
\* folded in ascending order; the range is split in two halves, and the
\* left half's crc is looked at before the right half starts (it is never
\* negative), only to keep the evaluation shallow.
RECURSIVE crcFrom(_, _, _, _)
crcFrom(crc, data, lo, hi) ==
  IF hi <= lo THEN crc
  ELSE IF hi = lo + 1 THEN crcBits(Xor(crc, (data[lo] * 256) % TwoTo16))
  ELSE LET mid == (lo + hi) \div 2
           left == crcFrom(crc, data, lo, mid)
       IN  IF left < 0 THEN left ELSE crcFrom(left, data, mid, hi)

\* crc16 whose loop never runs: the initial value comes back.
crc16_NoLoop(data, len) == CRC_INIT

crc16(data, len) == crcFrom(CRC_INIT, data, 0, len)

\* The stored checksum read high byte first.
storedCrc_BigEndian(data, len) == 256 * data[len - 2] + data[len - 1]

\* The 16-bit value memcpy reads from two bytes (little-endian RISC-V).
storedCrc(data, len) == data[len - 2] + 256 * data[len - 1]

\* ------------------------------------------------ record and flash contents
\* Byte i of content pattern k: all zero (the defaults), all 0xFF, a ramp,
\* and 0xFF with the bytes 0xFE 0xEF 0xDE closing the first page (0xFF
\* XOR the polynomial 0x011021); further patterns are fills.
PatternByte(k, i) ==
  CASE k = 0 -> 0
    [] k = 1 -> ERASED
    [] k = 2 -> (37 * i + 11) % 256
    [] k = 3 -> IF i = 61 THEN 254 ELSE IF i = 62 THEN 239
                ELSE IF i = 63 THEN 222 ELSE ERASED
    [] OTHER -> (k * 17) % 256

Pattern(k, n) == [i \in 0..(n - 1) |-> PatternByte(k, i)]

\* ------------------------------------------------------------------ state
VARIABLES
  settingsBuf,   \* the caller's record: offsets 0..length-1
  length,        \* engine fields set by the constructor
  alignedSize,
  address,
  useCrc,
  forceWrite,
  flash,         \* the storage region: offsets 0..alignedSize-1 from address
  locked,        \* flash controller: LOCK and FLOCK set
  pc,            \* where the caller is: idle, or a place inside save()
  startAddr,     \* flashErase / flashWrite: address of the next page
  cnt,           \* flashErase cnt / flashWrite cntPage
  cntWord,       \* flashWrite: words of the record still to write
  pbuf,          \* flashWrite: index of the next word of the record
  outside,       \* page operations issued outside the storage region
  lastOp,        \* the last completed call or event
  prevOp,        \* the one before it
  loadRet,       \* what the last load() returned
  saveLog,       \* outcomes of the save() calls made in succession
  nErase,        \* pages erased by the current or last save()
  nProg,         \* pages programmed by the current or last save()
  bufAtSave,     \* the record as it was when the last save() was called
  imageOk,       \* the region holds the image a completed write left
  dirty,         \* offsets corrupted directly since that write
  bursts,        \* direct corruptions so far
  recov          \* steps done of: load() fails, record rewritten, save(), load()

config == <<length, alignedSize, address, useCrc, forceWrite>>
loopVars == <<startAddr, cnt, cntWord, pbuf>>
ghost == <<lastOp, prevOp, loadRet, saveLog, nErase, nProg, bufAtSave,
           imageOk, dirty, bursts, recov>>
vars == <<settingsBuf, config, flash, locked, pc, loopVars, outside, ghost>>

\* A change check that takes in the checksum field.
compareSize_Whole == length

\* The payload: the record without its trailing checksum field.
compareSize == IF useCrc THEN length - 2 ELSE length
Pages == alignedSize \div FLASH_PAGE_SIZE

\* ------------------------------------------------------------ constructor
\* The fields SettingsStore(ptr, length, useCrc, forceWrite) computes.
fieldUseCrc(crcWanted, len) == crcWanted /\ len >= 2
fieldAlignedSize(len) == align_up(len, FLASH_PAGE_SIZE)
fieldAddress(len) == flashStartAddr(fieldAlignedSize(len))

\* The state an engine starts in: locked controller, idle caller.
Fresh ==
  /\ locked = TRUE
  /\ startAddr = 0 /\ cnt = 0 /\ cntWord = 0 /\ pbuf = 0
  /\ outside = {}
  /\ lastOp = "init" /\ prevOp = "init"
  /\ loadRet = TRUE
  /\ saveLog = << >>
  /\ nErase = 0 /\ nProg = 0
  /\ bufAtSave = << >>
  /\ imageOk = FALSE
  /\ dirty = {}
  /\ bursts = 0
  /\ recov = 0

\* An engine constructed over a default record, the region holding any prior
\* content.
Init ==
  /\ \E len \in Lengths, crcWanted \in BOOLEAN, force \in BOOLEAN, prior \in Patterns :
       /\ length = len
       /\ useCrc = fieldUseCrc(crcWanted, len)
       /\ forceWrite = force
       /\ alignedSize = fieldAlignedSize(len)
       /\ address = fieldAddress(len)
       /\ settingsBuf = Pattern(0, len)
       /\ flash = Pattern(prior, fieldAlignedSize(len))
  /\ pc = "idle"
  /\ Fresh

\* ------------------------------------------------------------------ load
flashRead(len) == [i \in 0..(len - 1) |-> flash[i]]

loadResult(buf) ==
  IF ~useCrc THEN TRUE
  ELSE storedCrc(buf, length) = crc16(buf, length - 2)

\* A load() that leaves the flash controller unlocked.
Load_Unlocks ==
  /\ pc = "idle"
  /\ settingsBuf' = flashRead(length)
  /\ loadRet' = loadResult(settingsBuf')
  /\ locked' = FALSE
  /\ lastOp' = "load" /\ prevOp' = lastOp
  /\ saveLog' = << >>
  /\ bufAtSave' = IF lastOp = "save" THEN bufAtSave ELSE << >>
  /\ recov' = IF recov = 2 THEN 3 ELSE 0
  /\ UNCHANGED <<config, flash, pc, loopVars, outside, nErase, nProg,
                 imageOk, dirty, bursts>>

Load ==
  /\ pc = "idle"
  /\ settingsBuf' = flashRead(length)
  /\ loadRet' = loadResult(settingsBuf')
  /\ lastOp' = "load" /\ prevOp' = lastOp
  /\ saveLog' = << >>
  /\ bufAtSave' = IF lastOp = "save" THEN bufAtSave ELSE << >>
  /\ recov' = IF recov = 2 THEN 3 ELSE 0
  /\ UNCHANGED <<config, flash, locked, pc, loopVars, outside, nErase, nProg,
                 imageOk, dirty, bursts>>

\* The caller writes the record (any content, checksum field included).
Modify ==
  /\ pc = "idle"
  /\ \E k \in Patterns : settingsBuf' = Pattern(k, length)
  /\ lastOp' = "modify" /\ prevOp' = lastOp
  /\ saveLog' = << >>
  /\ loadRet' = TRUE
  /\ nErase' = 0 /\ nProg' = 0
  /\ bufAtSave' = << >>
  /\ recov' = IF lastOp = "load" /\ ~loadRet THEN 1 ELSE 0
  /\ UNCHANGED <<config, flash, locked, pc, loopVars, outside, imageOk, dirty, bursts>>

\* ------------------------------------------------------------------ save
\* A change check with its comparison inverted.
hasChanged_Inverted == \E i \in 0..(compareSize - 1) : flash[i] = settingsBuf[i]

\* Change Detector: the payload bytes of the record against the region.
hasChanged == \E i \in 0..(compareSize - 1) : flash[i] # settingsBuf[i]

\* The checksum written into the record high byte first.
withCrc_HighFirst(buf) ==
  LET crc == crc16(buf, length - 2)
  IN  [buf EXCEPT ![length - 2] = crc \div 256, ![length - 1] = crc % 256]

\* The record with crc16 of its payload in its last two bytes (memcpy of
\* a uint16_t: low byte first).
withCrc(buf) ==
  LET crc == crc16(buf, length - 2)
  IN  [buf EXCEPT ![length - 2] = crc % 256, ![length - 1] = crc \div 256]

\* The last two save() calls made in succession.
logSave(wrote, erased, programmed) ==
  LET e == [wrote |-> wrote, erased |-> erased, programmed |-> programmed]
  IN  IF saveLog = << >> THEN <<e>> ELSE <<saveLog[Len(saveLog)], e>>

\* save() up to its first page erase: the change check, the checksum
\* written into the record, flashErase's unlock and loop set-up.
SaveCall ==
  /\ pc = "idle"
  /\ bufAtSave' = settingsBuf
  /\ nErase' = 0 /\ nProg' = 0
  /\ IF ~forceWrite /\ ~hasChanged
       THEN /\ lastOp' = "save" /\ prevOp' = lastOp
            /\ saveLog' = logSave(FALSE, 0, 0)
            /\ recov' = IF recov = 1 THEN 2 ELSE 0
            /\ UNCHANGED <<settingsBuf, flash, locked, pc, loopVars, imageOk, dirty, bursts>>
       ELSE /\ settingsBuf' = IF useCrc THEN withCrc(settingsBuf) ELSE settingsBuf
            /\ locked' = FALSE
            /\ startAddr' = address
            /\ cnt' = alignedSize \div FLASH_PAGE_SIZE
            /\ pc' = "eraseLoop"
            /\ imageOk' = FALSE
            /\ dirty' = {}
            /\ lastOp' = "saving" /\ prevOp' = lastOp
            /\ UNCHANGED <<flash, cntWord, pbuf, saveLog, recov>>
  /\ loadRet' = TRUE
  /\ UNCHANGED <<config, outside, bursts>>

\* Whether the page at addr lies in the storage region.
inRegion(addr) == addr >= address /\ addr + FLASH_PAGE_SIZE <= address + alignedSize

\* The region with the page at addr holding page[0..63].
withPage(addr, page) ==
  LET off == addr - address
  IN  [o \in DOMAIN flash |->
         IF o >= off /\ o < off + FLASH_PAGE_SIZE THEN page[o - off] ELSE flash[o]]

\* A pass of flashErase that starts no erase: the page keeps its content.
ErasePage_NoErase ==
  /\ pc = "eraseLoop"
  /\ startAddr' = startAddr + FLASH_PAGE_SIZE
  /\ cnt' = cnt - 1
  /\ pc' = IF cnt' = 0 THEN "eraseLock" ELSE "eraseLoop"
  /\ nErase' = nErase + 1
  /\ UNCHANGED <<settingsBuf, config, flash, locked, cntWord, pbuf, outside, lastOp,
                 prevOp, loadRet, saveLog, nProg, bufAtSave, imageOk, dirty, bursts,
                 recov>>

\* One pass of flashErase's do-while: erase the page at startAddr.
ErasePage ==
  /\ pc = "eraseLoop"
  /\ IF inRegion(startAddr)
       THEN /\ flash' = withPage(startAddr, [o \in 0..(FLASH_PAGE_SIZE - 1) |-> ERASED])
            /\ UNCHANGED outside
       ELSE /\ Cardinality(outside) < MaxRunaway
            /\ outside' = outside \cup {<<"erase", startAddr>>}
            /\ UNCHANGED flash
  /\ startAddr' = startAddr + FLASH_PAGE_SIZE
  /\ cnt' = cnt - 1
  /\ pc' = IF cnt' = 0 THEN "eraseLock" ELSE "eraseLoop"
  /\ nErase' = nErase + 1
  /\ UNCHANGED <<settingsBuf, config, locked, cntWord, pbuf, lastOp, prevOp, loadRet,
                 saveLog, nProg, bufAtSave, imageOk, dirty, bursts, recov>>

\* flashErase locks the controller and returns.
EraseEnd ==
  /\ pc = "eraseLock"
  /\ locked' = TRUE
  /\ pc' = "writeInit"
  /\ UNCHANGED <<settingsBuf, config, flash, loopVars, outside, ghost>>

\* A flashWrite that goes on from the address flashErase stopped at.
WriteBegin_NoRewind ==
  /\ pc = "writeInit"
  /\ pbuf' = 0
  /\ startAddr' = startAddr
  /\ cnt' = alignedSize \div FLASH_PAGE_SIZE
  /\ cntWord' = (length + 3) \div 4
  /\ locked' = FALSE
  /\ pc' = "writeLoop"
  /\ UNCHANGED <<settingsBuf, config, flash, outside, ghost>>

\* flashWrite's set-up and unlock.
WriteBegin ==
  /\ pc = "writeInit"
  /\ pbuf' = 0
  /\ startAddr' = address
  /\ cnt' = alignedSize \div FLASH_PAGE_SIZE
  /\ cntWord' = (length + 3) \div 4
  /\ locked' = FALSE
  /\ pc' = "writeLoop"
  /\ UNCHANGED <<settingsBuf, config, flash, outside, ghost>>

\* Byte i of the memory the record starts: past its end, whatever is there.
memByte(i, g) == IF i < length THEN settingsBuf[i] ELSE g

\* A 32-bit word is held as its two 16-bit halves <<low, high>>.
WORD_ERASED == <<65535, 65535>>

\* *(uint32_t *)pbuf for word w of the record (little-endian).
wordAt(w, g) ==
  << memByte(4 * w, g) + 256 * memByte(4 * w + 1, g),
     memByte(4 * w + 2, g) + 256 * memByte(4 * w + 3, g) >>

\* A word stored to flash high byte first.
byteOf_HighFirst(val, b) ==
  CASE b = 0 -> val[2] \div 256
    [] b = 1 -> val[2] % 256
    [] b = 2 -> val[1] \div 256
    [] OTHER -> val[1] % 256

\* Byte b of a word stored to flash.
byteOf(val, b) ==
  CASE b = 0 -> val[1] % 256
    [] b = 1 -> val[1] \div 256
    [] b = 2 -> val[2] % 256
    [] OTHER -> val[2] \div 256

\* The page buffer after the 16 word loads of one pass: record words while
\* cntWord lasts, then 0xFFFFFFFF.
pageImage(g) ==
  [o \in 0..(FLASH_PAGE_SIZE - 1) |->
     byteOf(IF (o \div 4) < cntWord THEN wordAt(pbuf + (o \div 4), g) ELSE WORD_ERASED,
            o % 4)]

\* One pass of flashWrite's do-while: load the page buffer, program the page.
ProgramPage ==
  /\ pc = "writeLoop"
  /\ \E g \in Garbage :
       IF inRegion(startAddr)
         THEN /\ flash' = withPage(startAddr, pageImage(g))
              /\ UNCHANGED outside
         ELSE /\ Cardinality(outside) < MaxRunaway
              /\ outside' = outside \cup {<<"program", startAddr>>}
              /\ UNCHANGED flash
  /\ pbuf' = pbuf + (IF cntWord > FLASH_PAGE_SIZE \div 4 THEN FLASH_PAGE_SIZE \div 4 ELSE cntWord)
  /\ cntWord' = IF cntWord > FLASH_PAGE_SIZE \div 4 THEN cntWord - FLASH_PAGE_SIZE \div 4 ELSE 0
  /\ startAddr' = startAddr + FLASH_PAGE_SIZE
  /\ cnt' = cnt - 1
  /\ pc' = IF cnt' = 0 THEN "writeLock" ELSE "writeLoop"
  /\ nProg' = nProg + 1
  /\ imageOk' = (cnt' = 0)
  /\ UNCHANGED <<settingsBuf, config, locked, lastOp, prevOp, loadRet, saveLog, nErase,
                 bufAtSave, dirty, bursts, recov>>

\* A flashWrite that returns without setting the lock bits.
WriteEnd_NoLock ==
  /\ pc = "writeLock"
  /\ locked' = locked
  /\ pc' = "idle"
  /\ lastOp' = "save"
  /\ saveLog' = logSave(TRUE, nErase, nProg)
  /\ recov' = IF recov = 1 THEN 2 ELSE 0
  /\ UNCHANGED <<settingsBuf, config, flash, loopVars, outside, prevOp, loadRet, nErase,
                 nProg, bufAtSave, imageOk, dirty, bursts>>

\* flashWrite locks the controller; save() returns.
WriteEnd ==
  /\ pc = "writeLock"
  /\ locked' = TRUE
  /\ pc' = "idle"
  /\ lastOp' = "save"
  /\ saveLog' = logSave(TRUE, nErase, nProg)
  /\ recov' = IF recov = 1 THEN 2 ELSE 0
  /\ UNCHANGED <<settingsBuf, config, flash, loopVars, outside, prevOp, loadRet, nErase,
                 nProg, bufAtSave, imageOk, dirty, bursts>>

\* ------------------------------------------------------------ environment
\* Power was lost after the first page erase and before the last page program.
midSequence ==
  \/ pc = "eraseLoop" /\ nErase >= 1
  \/ pc \in {"eraseLock", "writeInit", "writeLoop"}

\* Power loss and the next boot: RAM is lost (the record is back at its
\* defaults), the controller is locked, the flash is what it was.
PowerCycle ==
  /\ settingsBuf' = Pattern(0, length)
  /\ locked' = TRUE
  /\ pc' = "idle"
  /\ startAddr' = 0 /\ cnt' = 0 /\ cntWord' = 0 /\ pbuf' = 0
  /\ lastOp' = IF midSequence THEN "torn" ELSE "reboot"
  /\ prevOp' = lastOp
  /\ saveLog' = << >>
  /\ loadRet' = TRUE
  /\ bufAtSave' = << >>
  /\ recov' = 0
  /\ UNCHANGED <<config, flash, outside, nErase, nProg, imageOk, dirty, bursts>>

\* Where a direct corruption may start: anywhere in a short record (the
\* long records are left uncorrupted).
corruptStarts == IF length <= MaxSmallLen THEN 0..(length - 1) ELSE {}

\* The highest offset corrupted so far.
lastDirty == CHOOSE o \in dirty : \A q \in dirty : q <= o

\* A byte of the stored record is changed directly, after a save() that wrote
\* it: one corruption is a run of adjacent bytes, changed one at a time.
Corrupt ==
  /\ pc = "idle"
  /\ imageOk
  /\ IF dirty = {} THEN lastOp = "save" /\ bursts < MaxBursts ELSE lastOp = "corrupt"
  /\ bursts' = IF dirty = {} THEN bursts + 1 ELSE bursts
  /\ Cardinality(dirty) < MaxCorrupt
  /\ \E o \in 0..(length - 1), m \in Masks(Cardinality(dirty)) :
       /\ IF dirty = {} THEN o \in corruptStarts ELSE o = lastDirty + 1
       /\ flash' = [flash EXCEPT ![o] = Xor(flash[o], m)]
       /\ dirty' = dirty \cup {o}
  /\ lastOp' = "corrupt" /\ prevOp' = lastOp
  /\ saveLog' = << >>
  /\ nErase' = 0 /\ nProg' = 0
  /\ bufAtSave' = << >>
  /\ recov' = 0
  /\ UNCHANGED <<settingsBuf, config, locked, pc, loopVars, outside, loadRet, imageOk>>

Next ==
  \/ Load
  \/ Modify
  \/ SaveCall
  \/ ErasePage
  \/ EraseEnd
  \/ WriteBegin
  \/ ProgramPage
  \/ WriteEnd
  \/ PowerCycle
  \/ Corrupt

Spec == Init /\ [][Next]_vars

\* ------------------------------------------------- first boot, any length
\* Before the engine exists: no fields yet, nothing known of the flash.
InitBoot ==
  /\ length = 0 /\ useCrc = FALSE /\ forceWrite = FALSE
  /\ alignedSize = 0 /\ address = 0
  /\ settingsBuf = << >>
  /\ flash = << >>
  /\ pc = "new"
  /\ Fresh

\* The constructor, for a record of any length up to MaxLayoutLen, on a
\* device whose storage region was never written.
ConstructOp ==
  /\ pc = "new"
  /\ \E len \in 0..MaxLayoutLen, crcWanted \in BOOLEAN, force \in BOOLEAN :
       /\ length' = len
       /\ useCrc' = fieldUseCrc(crcWanted, len)
       /\ forceWrite' = force
       /\ alignedSize' = fieldAlignedSize(len)
       /\ address' = fieldAddress(len)
       /\ settingsBuf' = Pattern(0, len)
       /\ flash' = Pattern(1, fieldAlignedSize(len))
  /\ pc' = "idle"
  /\ UNCHANGED <<locked, loopVars, outside, ghost>>

NextBoot ==
  \/ ConstructOp
  \/ Load

SpecBoot == InitBoot /\ [][NextBoot]_vars

\* ------------------------------------------- one payload bit, two saves
\* Record lengths that hold a payload and a checksum field.
CrcLens == {n \in Lengths : n > 2}

\* 2^b for a bit position of a byte.
BitMask(b) ==
  CASE b = 0 -> 1 [] b = 1 -> 2 [] b = 2 -> 4 [] b = 3 -> 8
    [] b = 4 -> 16 [] b = 5 -> 32 [] b = 6 -> 64 [] OTHER -> 128

\* An engine with integrity checking over a record of any content, on a
\* device whose storage region was never written.
InitCrc ==
  /\ \E len \in CrcLens, force \in BOOLEAN, k \in Patterns :
       /\ length = len
       /\ useCrc = fieldUseCrc(TRUE, len)
       /\ forceWrite = force
       /\ alignedSize = fieldAlignedSize(len)
       /\ address = fieldAddress(len)
       /\ settingsBuf = Pattern(k, len)
       /\ flash = Pattern(1, fieldAlignedSize(len))
  /\ pc = "idle"
  /\ Fresh

\* After a save() that wrote one of the content patterns, the caller flips
\* one bit of the payload.
FlipBit ==
  /\ pc = "idle"
  /\ lastOp = "save"
  /\ saveLog # << >> /\ saveLog[Len(saveLog)].wrote
  /\ \E k \in Patterns :
       \A i \in 0..(compareSize - 1) : settingsBuf[i] = PatternByte(k, i)
  /\ \E i \in 0..(compareSize - 1), b \in 0..7 :
       settingsBuf' = [settingsBuf EXCEPT ![i] = Xor(settingsBuf[i], BitMask(b))]
  /\ lastOp' = "flip" /\ prevOp' = lastOp
  /\ saveLog' = << >>
  /\ loadRet' = TRUE
  /\ nErase' = 0 /\ nProg' = 0
  /\ bufAtSave' = << >>
  /\ recov' = 0
  /\ UNCHANGED <<config, flash, locked, pc, loopVars, outside, imageOk, dirty, bursts>>

NextCrc ==
  \/ SaveCall
  \/ ErasePage
  \/ EraseEnd
  \/ WriteBegin
  \/ ProgramPage
  \/ WriteEnd
  \/ FlipBit

SpecCrc == InitCrc /\ [][NextCrc]_vars

\* ================================================================ claims
\* Offsets of the payload and of the checksum field (explicitly, from the
\* engine's fields).
payloadOffsets == 0..((IF useCrc THEN length - 2 ELSE length) - 1)
crcOffsets == IF useCrc THEN {length - 2, length - 1} ELSE {}
lastSave == saveLog[Len(saveLog)]
lastSaveWrote == lastOp = "save" /\ saveLog # << >> /\ lastSave.wrote
regionErased == \A o \in DOMAIN flash : flash[o] = ERASED
\* The checksum check written out: low byte first against crc16 of the payload.
crcMatches(buf) == buf[length - 2] + 256 * buf[length - 1] = crc16(buf, length - 2)

\* C1: Round-trip.  A load() that directly follows a completed save() returns
\* true, and the payload it reads is the payload the record held when save()
\* was called -- for every prior flash content and both forceWrite settings
\* (stated for records that have a payload).
C1_RoundTrip ==
  (lastOp = "load" /\ prevOp = "save" /\ payloadOffsets # {}) =>
    /\ loadRet
    /\ \A i \in payloadOffsets : settingsBuf[i] = bufAtSave[i]

\* C2: Recovery.  After load() returned false, the caller rewrote the record
\* and called save(), the next load() returns true with that payload (stated
\* for records that have a payload).
C2_Recovery ==
  (recov = 3 /\ payloadOffsets # {}) =>
    /\ loadRet
    /\ \A i \in payloadOffsets : settingsBuf[i] = bufAtSave[i]

\* C3 as claimed: with integrity checking (and a payload), a load() on the
\* boot after a power loss inside the erase/program sequence returns false.
C3_TornAlwaysDetected ==
  (lastOp = "load" /\ prevOp = "torn" /\ useCrc /\ length > 2) => ~loadRet

\* C3 amended: the load() after a power loss between two page operations
\* returns false when the record fits one page, and, for a longer record,
\* when every page was erased and none reprogrammed yet.
C3_TornErasedDetected ==
  (lastOp = "load" /\ prevOp = "torn" /\ useCrc /\ length > 2
     /\ (Pages = 1 \/ (nErase = Pages /\ nProg = 0)))
    => ~loadRet

C3_Witness ==
  /\ lastOp = "load" /\ prevOp = "torn" /\ useCrc /\ length > 2
  /\ Pages = 2 /\ nErase = 2 /\ nProg = 0
  /\ regionErased
  /\ ~loadRet

\* C4 as claimed: payload bytes of the stored record changed directly, the
\* stored checksum left as it was: the next load() returns false.
C4_AnyCorruptionDetected ==
  (lastOp = "load" /\ prevOp = "corrupt" /\ useCrc /\ dirty \subseteq payloadOffsets)
    => ~loadRet

\* C4 amended: after a save() that wrote, a direct change of one payload byte
\* or of two adjacent payload bytes (checksum untouched), or a change of
\* checksum bytes only, makes the next load() return false.
C4_BurstDetected ==
  (lastOp = "load" /\ prevOp = "corrupt" /\ useCrc
     /\ \/ dirty \subseteq payloadOffsets /\ Cardinality(dirty) <= 2
        \/ dirty \subseteq crcOffsets)
    => ~loadRet

C4_Witness ==
  /\ lastOp = "load" /\ prevOp = "corrupt" /\ useCrc
  /\ dirty \subseteq payloadOffsets /\ Cardinality(dirty) = 2
  /\ ~loadRet

\* C5: Padding.  After a save() that wrote, every region byte from offset
\* length up to alignedSize is 0xFF.
C5_Padding ==
  lastSaveWrote => \A o \in length..(alignedSize - 1) : flash[o] = ERASED

\* C6: Idempotent skip.  Of two save() calls in succession, without
\* forceWrite the second erases and programs nothing; with forceWrite both
\* erase and program every page of the region.
C6_IdempotentSkip ==
  (lastOp = "save" /\ Len(saveLog) = 2) =>
    IF forceWrite
      THEN \A k \in 1..2 : /\ saveLog[k].wrote
                           /\ saveLog[k].erased = Pages
                           /\ saveLog[k].programmed = Pages
      ELSE /\ ~saveLog[2].wrote
           /\ saveLog[2].erased = 0
           /\ saveLog[2].programmed = 0

C6_Witness ==
  /\ lastOp = "save" /\ Len(saveLog) = 2 /\ ~forceWrite
  /\ saveLog[1].wrote /\ saveLog[1].erased = Pages /\ Pages = 2
  /\ ~saveLog[2].wrote

\* C7: Skip leaves everything untouched.  A save() called without forceWrite
\* on a record whose payload bytes equal the stored ones returns at once:
\* no unlock, no erase, no program, flash and the whole record unchanged.
C7_SkipFrame ==
  [][ (/\ pc = "idle" /\ ~forceWrite
       /\ \A i \in payloadOffsets : settingsBuf[i] = flash[i]
       /\ (lastOp' = "save" \/ pc' = "eraseLoop"))
      => (/\ pc' = "idle"
          /\ flash' = flash
          /\ settingsBuf' = settingsBuf
          /\ locked' = locked
          /\ outside' = outside
          /\ nErase' = 0 /\ nProg' = 0) ]_vars

C7_Witness ==
  /\ lastOp = "save" /\ saveLog # << >> /\ ~lastSave.wrote
  /\ useCrc /\ length > 2
  /\ settingsBuf[length - 1] # flash[length - 1]
  /\ locked /\ pc = "idle"

\* C8: Never-written flash.  With integrity checking and length > 2, load()
\* on a region of 0xFF bytes returns false.
C8_ErasedFails ==
  (lastOp = "load" /\ useCrc /\ length > 2 /\ regionErased) => ~loadRet

C8_Witness ==
  /\ lastOp = "load" /\ useCrc /\ length > FLASH_PAGE_SIZE /\ regionErased
  /\ ~loadRet

\* C9: load() result.  After load() the record holds the first length bytes of
\* the region; it returned true without integrity checking, and with it, true
\* exactly when the last two bytes read are crc16 of the bytes before them.
C9_LoadResult ==
  lastOp = "load" =>
    /\ DOMAIN settingsBuf = 0..(length - 1)
    /\ \A i \in 0..(length - 1) : settingsBuf[i] = flash[i]
    /\ loadRet = (IF useCrc THEN crcMatches(settingsBuf) ELSE TRUE)

C9_Witness ==
  /\ lastOp = "load" /\ useCrc /\ ~loadRet
  /\ settingsBuf # Pattern(0, length)
  /\ \A i \in 0..(length - 1) : settingsBuf[i] = flash[i]

\* C10: Layout.  Once constructed, alignedSize is the smallest multiple of the
\* page size that is >= length, and the region ends at the top of flash.
C10_Layout ==
  pc # "new" =>
    /\ alignedSize % FLASH_PAGE_SIZE = 0
    /\ alignedSize >= length
    /\ alignedSize - FLASH_PAGE_SIZE < length
    /\ address = FLASH_END_ADDR - alignedSize
    /\ (length \in {1, 63, 64}) => alignedSize = 64
    /\ (length \in {65, 128}) => alignedSize = 128

C10_Witness ==
  /\ pc = "idle" /\ length = 65 /\ alignedSize = 128
  /\ address = FLASH_END_ADDR - 128

\* Bytes of memory, counted from the record's first byte, that flashWrite
\* has read once it is in or past its page loop.
bytesRead == 4 * pbuf
inPageLoop == pc \in {"writeLoop", "writeLock"}

\* C11: Degenerate record.  An engine of length 1 has integrity checking off
\* whatever was asked for, its load() returns true, and its save() reads no
\* byte of memory past that single byte.
C11_Degenerate ==
  length = 1 =>
    /\ ~useCrc
    /\ lastOp = "load" => loadRet
    /\ (inPageLoop /\ nProg >= 1) => bytesRead <= 1

\* C12: Checksum sensitivity.  A save() that wrote, one payload bit flipped,
\* save() again: the second save() writes, and the checksum it stores differs
\* from the one the first stored.
C12_BitFlipChangesCrc ==
  (lastOp = "save" /\ prevOp = "flip") =>
    /\ lastSave.wrote
    /\ <<flash[length - 2], flash[length - 1]>>
         # <<bufAtSave[length - 2], bufAtSave[length - 1]>>

C12_Witness ==
  /\ lastOp = "save" /\ prevOp = "flip" /\ length = 66
  /\ \E i \in payloadOffsets : settingsBuf[i] = 128 /\ bufAtSave[i] = 128
  /\ flash[length - 2] # bufAtSave[length - 2]

\* C13: Frame.  A load() changes no flash byte and not the controller's lock
\* state, and no step changes length, alignedSize, address, useCrc or
\* forceWrite.
C13_Frame ==
  [][/\ lastOp' = "load" => (flash' = flash /\ locked' = locked)
     /\ config' = config]_vars

C13_Witness ==
  /\ lastOp = "load" /\ prevOp = "save" /\ nProg = 2
  /\ locked /\ length = 66 /\ alignedSize = 128

\* C14: Erase-then-program ordering.  In a save() that writes a region of at
\* least one page, the erase loop takes the pages in ascending order from
\* address, no page is programmed before the last erase, the program loop
\* takes the same pages in the same order, and on return each page was erased
\* once and programmed once.
C14_EraseThenProgram ==
  Pages > 0 =>
    /\ pc = "eraseLoop" =>
         /\ nProg = 0 /\ nErase < Pages
         /\ startAddr = address + FLASH_PAGE_SIZE * nErase
    /\ pc \in {"eraseLock", "writeInit"} => (nErase = Pages /\ nProg = 0)
    /\ pc = "writeLoop" =>
         /\ nErase = Pages /\ nProg < Pages
         /\ startAddr = address + FLASH_PAGE_SIZE * nProg
    /\ (pc = "writeLock" \/ lastSaveWrote) => (nErase = Pages /\ nProg = Pages)
    /\ lastSaveWrote => (lastSave.erased = Pages /\ lastSave.programmed = Pages)

C14_Witness ==
  /\ pc = "writeLoop" /\ Pages = 2 /\ nErase = 2 /\ nProg = 1
  /\ startAddr = address + FLASH_PAGE_SIZE

\* C15: Stored image.  After a save() that wrote, region offsets
\* 0..length-1 hold the record's bytes 0..length-1 as they are on return.
C15_StoredImage ==
  lastSaveWrote => \A o \in 0..(length - 1) : flash[o] = settingsBuf[o]

C15_Witness ==
  /\ lastSaveWrote /\ useCrc /\ length = 66
  /\ flash[0] = 11 /\ settingsBuf[0] = 11
  /\ flash[65] = settingsBuf[65]

\* C16: Checksum injection.  In a save() that writes, from before the first
\* erase on: with integrity checking the record's last two bytes are crc16 of
\* its first length-2 bytes (low byte first) and those first bytes are what
\* the caller passed; without it the record is what the caller passed.
C16_Injection ==
  (lastOp = "saving" \/ lastSaveWrote) =>
    IF useCrc
      THEN /\ settingsBuf[length - 2] = crc16(settingsBuf, length - 2) % 256
           /\ settingsBuf[length - 1] = crc16(settingsBuf, length - 2) \div 256
           /\ \A i \in 0..(length - 3) : settingsBuf[i] = bufAtSave[i]
      ELSE settingsBuf = bufAtSave

C16_Witness ==
  /\ pc = "eraseLoop" /\ nErase = 0 /\ useCrc /\ length = 6
  /\ bufAtSave[4] = 11 + 4 * 37
  /\ settingsBuf[4] # bufAtSave[4]
  /\ settingsBuf[0] = 11

\* C17: Lock protocol.  The controller is unlocked wherever a page is erased
\* or programmed, and locked whenever save() has returned.
C17_LockProtocol ==
  /\ pc \in {"eraseLoop", "writeLoop"} => ~locked
  /\ pc = "idle" => locked

C17_Witness ==
  /\ lastSaveWrote /\ locked /\ pc = "idle" /\ nErase = 2 /\ nProg = 2

\* C18: Loop counts.  Neither loop of save() makes more passes than the
\* region has pages (alignedSize / 64).
C18_LoopCount ==
  /\ nErase <= Pages
  /\ nProg <= Pages

\* C19: No page outside the storage region is erased or programmed.
C19_InsideRegion == outside = {}

\* C20: save() reads no byte of memory past the record's length bytes.
C20_NoOverRead ==
  (inPageLoop /\ nProg >= 1) => bytesRead <= length

====
